---------------------------- MODULE Spec2Model ----------------------------
(***************************************************************************)
(* A model of stemtool/util/pnccd.py: the frms6 reader (class Frms6Reader) *)
(* and the HDF5 readers (module-level readData and getDataSize).           *)
(*                                                                         *)
(* A file is the sequence of its bytes.  Every read-entry-point is a small *)
(* process: it opens a handle, seeks and reads, and returns a value or     *)
(* raises.  Python lists and numpy arrays are tuples indexed from 1, so    *)
(* numpy's a[x][y][k] is a[x+1][y+1][k+1] here.                            *)
(***************************************************************************)
EXTENDS Integers, Sequences, FiniteSets, TLC

VARIABLES
    pc,       \* the control point of the running call ("idle" before, "done" after)
    top,      \* the entry point that was called
    file,     \* the bytes of the frms6 file the call was given (fn)
    args,     \* the arguments of the call
    fh,       \* the file handle of the current `with open(fn, 'rb') as fh` block
    opens,    \* how many times the call has opened fn so far
    closes,   \* how many times the call has closed a handle on fn so far
    nread,    \* how many bytes the call has read from fn so far
    loc,      \* the local variables of the running function
    result,   \* what the call returned or raised
    h5        \* the h5py.File objects of the module-level readData and getDataSize

vars == <<pc, top, file, args, fh, opens, closes, nread, loc, result, h5>>

---------------------------------------------------------------------------
(* Bounds of the model.                                                    *)

\* Frame widths and heights range over 0..MaxDim.
MaxDim == 2
\* Files hold up to MaxFrames frames; frame indices range over -1..MaxFrames+1.
MaxFrames == 2
\* Up to MaxCut bytes are cut off the end of an otherwise valid file.
MaxCut == 2

Dims == 0..MaxDim
FrameCounts == 0..MaxFrames
Cuts == 0..MaxCut
FrameIdxs == (-1)..(MaxFrames + 1)
\* Two families of sample values; the second crosses the one-byte boundary.
Seeds == {0, 253}

---------------------------------------------------------------------------
(* Small helpers.                                                          *)

Min(a, b) == IF a <= b THEN a ELSE b
Max(a, b) == IF a >= b THEN a ELSE b

\* The tuple of n copies of v.
Rep(v, n) == [i \in 1..n |-> v]

RECURSIVE Concat(_)
\* The concatenation of a tuple of tuples.
Concat(ss) == IF ss = <<>> THEN <<>> ELSE Head(ss) \o Concat(Tail(ss))

\* What a call returns, and what it raises.
Ok(v) == [kind |-> "ok", exc |-> "", value |-> v]
Raise(e) == [kind |-> "error", exc |-> e, value |-> <<>>]
NoResult == [kind |-> "none", exc |-> "", value |-> <<>>]

---------------------------------------------------------------------------
(* struct: format strings, calcsize, unpack (byte order '=': native order, *)
(* standard sizes, no alignment).  A format is a tuple of <<count, code>>. *)

\* The standard size of one item of a format code.
FmtSize(c) ==
    CASE c = "B" -> 1
      [] c = "H" -> 2
      [] c = "h" -> 2
      [] c = "I" -> 4
      [] c = "Q" -> 8
      [] c = "d" -> 8
      [] c = "s" -> 1
      [] c = "x" -> 1

fileHeaderFormat ==
    << <<1, "H">>,    \* myLength
       <<1, "H">>,    \* fhLength
       <<1, "B">>,    \* nCCDs
       <<1, "B">>,    \* width
       <<1, "B">>,    \* maxHeight
       <<1, "B">>,    \* version
       <<80, "s">>,   \* dataSetID[80]
       <<1, "H">>,    \* the_width
       <<1, "H">>,    \* the_maxHeight
       <<932, "x">> >>

\* The frame header without the bunch id.
frameHeaderFormat_NoBunchId ==
    << <<1, "B">>, <<1, "B">>, <<1, "B">>, <<1, "B">>,
       <<1, "I">>, <<1, "I">>, <<1, "I">>, <<1, "d">>,
       <<1, "H">>, <<1, "H">>, <<1, "I">>, <<24, "x">> >>

frameHeaderFormat ==
    << <<1, "B">>,    \* start
       <<1, "B">>,    \* info
       <<1, "B">>,    \* id
       <<1, "B">>,    \* height
       <<1, "I">>,    \* tv_sec
       <<1, "I">>,    \* tv_usec
       <<1, "I">>,    \* index
       <<1, "d">>,    \* temp
       <<1, "H">>,    \* the_start
       <<1, "H">>,    \* the_height
       <<1, "I">>,    \* external_id
       <<1, "Q">>,    \* BunchID_t id
       <<24, "x">> >>

RECURSIVE calcsize(_)
\* struct.calcsize: the bytes a format takes.
calcsize(fmt) ==
    IF fmt = <<>> THEN 0
    ELSE Head(fmt)[1] * FmtSize(Head(fmt)[2]) + calcsize(Tail(fmt))

fileHeaderSizeInBytes == calcsize(fileHeaderFormat)
frameHeaderSizeInBytes == calcsize(frameHeaderFormat)

RECURSIVE UIntLE(_)
\* The unsigned integer of a little-endian byte string: '=' is the native
\* byte order, here that of a little-endian host, on which the files were
\* written too.
UIntLE(bs) == IF bs = <<>> THEN 0 ELSE Head(bs) + 256 * UIntLE(Tail(bs))

\* The IEEE-754 binary64 of eight little-endian bytes, as its sign bit, its
\* biased exponent (11 bits) and its fraction (52 bits, most significant
\* part first: 4 bits, then six bytes).
DoubleLE(bs) ==
    [sign |-> bs[8] \div 128,
     exponent |-> (bs[8] % 128) * 16 + bs[7] \div 16,
     fraction |-> <<bs[7] % 16, bs[6], bs[5], bs[4], bs[3], bs[2], bs[1]>>]

\* One item of a format code decoded from its bytes.
UnpackItem(c, bs) ==
    CASE c = "d" -> DoubleLE(bs)
      [] c = "s" -> bs
      [] OTHER -> UIntLE(bs)

RECURSIVE UnpackFrom(_, _, _)
\* The items of fmt decoded from bs, starting at offset off; pad bytes
\* ('x') give no item, and 'Ns' gives one item of N bytes.
UnpackFrom(fmt, bs, off) ==
    IF fmt = <<>> THEN <<>>
    ELSE LET n == Head(fmt)[1]
             c == Head(fmt)[2]
             size == n * FmtSize(c)
             rest == UnpackFrom(Tail(fmt), bs, off + size)
         IN  IF c = "x" THEN rest
             ELSE <<UnpackItem(c, SubSeq(bs, off + 1, off + size))>> \o rest

\* Struct.unpack raises struct.error unless the buffer has the exact size.
UnpackFails(fmt, bs) == Len(bs) # calcsize(fmt)
unpack(fmt, bs) == UnpackFrom(fmt, bs, 0)

RECURSIVE rstrip0(_)
\* bytes.rstrip(b'\x00')
rstrip0(bs) ==
    IF bs # <<>> /\ bs[Len(bs)] = 0 THEN rstrip0(SubSeq(bs, 1, Len(bs) - 1))
    ELSE bs

---------------------------------------------------------------------------
(* The files the calls are given: the layout of the two formats, written   *)
(* out.  FrmsFile(w, h, n, seed, cut) is a file whose header declares      *)
(* frames of w x h, followed by n frames, the last cut bytes missing.      *)

RECURSIVE PackLE(_, _)
\* v as n little-endian bytes.
PackLE(v, n) == IF n = 0 THEN <<>> ELSE <<v % 256>> \o PackLE(v \div 256, n - 1)

\* The bytes of the file header (1024 bytes): dataSetID is "ab" padded
\* with zero bytes.
FileHeaderBytes(w, h) ==
    PackLE(fileHeaderSizeInBytes, 2) \o PackLE(frameHeaderSizeInBytes, 2)
    \o <<1, w % 256, h % 256, 6>>
    \o (<<97, 98>> \o Rep(0, 78))
    \o PackLE(w, 2) \o PackLE(h, 2)
    \o Rep(0, 932)

\* The bytes of the header of frame k.  The temperature is 1.0 for even
\* frames and -2.0 for odd ones.
FrameHeaderBytes(h, k, seed) ==
    <<1 + k, 10 + k, 20 + k, h % 256>>
    \o PackLE(1000 + seed + k, 4) \o PackLE(2000 + seed + k, 4) \o PackLE(k, 4)
    \o (IF k % 2 = 0 THEN <<0, 0, 0, 0, 0, 0, 240, 63>>
                     ELSE <<0, 0, 0, 0, 0, 0, 0, 192>>)
    \o PackLE(3 + k, 2) \o PackLE(h, 2)
    \o PackLE(300 + k, 4) \o PackLE(7 + k, 8)
    \o Rep(0, 24)

\* Sample i (from 0) of frame k: with seed 0 and 2 x 2 frames, the frames
\* are [1,2,3,4] and [5,6,7,8].
Sample(w, h, k, i, seed) == seed + 1 + k * w * h + i

FramePayloadBytes(w, h, k, seed) ==
    Concat([i \in 1..(w * h) |-> PackLE(Sample(w, h, k, i - 1, seed), 2)])

FrmsFile(w, h, n, seed, cut) ==
    LET whole == FileHeaderBytes(w, h)
                 \o Concat([k \in 1..n |->
                        FrameHeaderBytes(h, k - 1, seed)
                        \o FramePayloadBytes(w, h, k - 1, seed)])
    IN  SubSeq(whole, 1, Len(whole) - cut)

---------------------------------------------------------------------------
(* File handles: open(fn, 'rb'), fh.read, fh.seek, and the end of the      *)
(* with-block, which closes the handle.                                    *)

NoHandle == [open |-> FALSE, pos |-> 0]
OpenHandle == [open |-> TRUE, pos |-> 0]

\* A read that always gives n bytes: zeros stand for the bytes past the end
\* of the file.
ReadBytes_ZeroFilled(f, pos, n) ==
    LET got == SubSeq(f, pos + 1, Min(pos + n, Len(f)))
    IN  got \o Rep(0, n - Len(got))

\* fh.read(n): the bytes from the position on, fewer than n at end of file.
ReadBytes(f, pos, n) == SubSeq(f, pos + 1, Min(pos + n, Len(f)))

\* The end of a with-block, by return or by exception: the handle is closed.
WithExit ==
    /\ fh' = NoHandle
    /\ closes' = closes + 1

---------------------------------------------------------------------------
(* numpy: arrays are records of a shape and nested tuples of the data.     *)

\* A negative dimension taken for an empty one.
ZerosFails_Never(shape) == FALSE

\* np.zeros(shape) raises ValueError on a negative dimension.
ZerosFails(shape) == \E i \in 1..Len(shape) : shape[i] < 0

np_zeros(shape) ==
    [shape |-> shape,
     data |-> [x \in 1..shape[1] |-> [y \in 1..shape[2] |-> Rep(0, shape[3])]]]

\* np.frombuffer(buf, np.uint16) raises ValueError unless the buffer is a
\* whole number of 2-byte elements; each element is read in native order.
FrombufferFails(buf) == Len(buf) % 2 # 0
np_frombuffer(buf) ==
    [shape |-> <<Len(buf) \div 2>>,
     data |-> [i \in 1..(Len(buf) \div 2) |-> UIntLE(SubSeq(buf, 2 * i - 1, 2 * i))]]

\* reshape in Fortran order (the first index changes fastest): the frame is
\* filled column by column.
reshape_FortranOrder(a, rows, cols) ==
    [shape |-> <<rows, cols>>,
     data |-> [r \in 1..rows |-> [c \in 1..cols |-> a.data[(c - 1) * rows + r]]]]

\* a.reshape((rows, cols)) raises ValueError unless the sizes agree; the
\* order is C order: the last index changes fastest.
ReshapeFails(a, rows, cols) == a.shape[1] # rows * cols

reshape(a, rows, cols) ==
    [shape |-> <<rows, cols>>,
     data |-> [r \in 1..rows |-> [c \in 1..cols |-> a.data[(r - 1) * cols + c]]]]

\* np.transpose of a 2-D array.
np_transpose(a) ==
    [shape |-> <<a.shape[2], a.shape[1]>>,
     data |-> [c \in 1..a.shape[2] |-> [r \in 1..a.shape[1] |-> a.data[r][c]]]]

\* chunk[:, :, frameIdx] = frame
SetFrame(chunk, frameIdx, frame) ==
    [chunk EXCEPT !.data =
        [x \in 1..chunk.shape[1] |-> [y \in 1..chunk.shape[2] |->
            [k \in 1..chunk.shape[3] |->
                IF k = frameIdx + 1 THEN frame.data[x][y]
                ELSE chunk.data[x][y][k]]]]]

---------------------------------------------------------------------------
(* Frms6Reader                                                             *)

\* The frame size in samples, not in bytes.
getFrameSizeInBytes_InSamples(frameWidth, frameHeight) ==
    frameWidth * frameHeight

\* struct.calcsize(str(frameWidth * frameHeight) + 'h')
getFrameSizeInBytes(frameWidth, frameHeight) ==
    calcsize(<< <<frameWidth * frameHeight, "h">> >>)

\* The OrderedDict getFileHeader builds from the unpacked items.
FileHeaderDict(items) ==
    [fileHeaderSize |-> items[1],
     frameHeaderSize |-> items[2],
     nCCDs |-> items[3],
     maxWidth |-> items[4],
     maxHeight |-> items[5],
     version |-> items[6],
     dataSetId |-> rstrip0(items[7]),
     width |-> items[8],
     height |-> items[9]]

\* The check of the division left out: the quotient is truncated.
IsInteger_NotChecked(num, den) == TRUE

\* float(numberOfFrames).is_integer() of the true division num / den.
IsInteger(num, den) == num % den = 0

\* frameHeader + frame, in bytes (getDataShape).
frameAndHeaderSizeInBytes(frameWidth, frameHeight) ==
    frameHeaderSizeInBytes + getFrameSizeInBytes(frameWidth, frameHeight)

\* The offset without the frames before startIdx: every range is read from
\* the first frame of the file.
StartOffset_FromFirstFrame(startIdx, frameSizeInBytes) ==
    fileHeaderSizeInBytes

\* The byte readData seeks to before it reads frame startIdx.
StartOffset(startIdx, frameSizeInBytes) ==
    fileHeaderSizeInBytes + startIdx * (frameHeaderSizeInBytes + frameSizeInBytes)

\* The nine lists of getFrameHeaders, empty.
NoLists ==
    [start |-> <<>>, info |-> <<>>, id |-> <<>>, height |-> <<>>,
     tv_sec |-> <<>>, tv_usec |-> <<>>, index |-> <<>>, temp |-> <<>>,
     maxHeight |-> <<>>]

\* The nine appends of one pass of the loop of getFrameHeaders.
AppendItems(lists, frameHeaderItems) ==
    [start |-> Append(lists.start, frameHeaderItems[1]),
     info |-> Append(lists.info, frameHeaderItems[2]),
     id |-> Append(lists.id, frameHeaderItems[3]),
     height |-> Append(lists.height, frameHeaderItems[4]),
     tv_sec |-> Append(lists.tv_sec, frameHeaderItems[5]),
     tv_usec |-> Append(lists.tv_usec, frameHeaderItems[6]),
     index |-> Append(lists.index, frameHeaderItems[7]),
     temp |-> Append(lists.temp, frameHeaderItems[8]),
     maxHeight |-> Append(lists.maxHeight, frameHeaderItems[9])]

\* The local variables before a call.
NoLocals ==
    [frameWidth |-> 0, frameHeight |-> 0, numberOfFrames |-> 0,
     frameSizeInBytes |-> 0, frameIdx |-> 0, offset |-> 0,
     raw |-> <<>>, fileHeader |-> <<>>, lists |-> NoLists,
     chunk |-> <<>>, din |-> <<>>, dinType |-> "None"]

NoArgs == [image_range |-> <<0, 0>>, pixels_x |-> 0, pixels_y |-> 0]
\* No h5py.File object yet: none open, none closed, no dataset.
NoH5 == [open |-> 0, closed |-> 0, datasets |-> <<>>]

Init ==
    /\ pc = "idle"
    /\ top = "none"
    /\ file = <<>>
    /\ args = NoArgs
    /\ fh = NoHandle
    /\ opens = 0
    /\ closes = 0
    /\ nread = 0
    /\ loc = NoLocals
    /\ result = NoResult
    /\ h5 = NoH5

\* A caller calls Frms6Reader.getDataShape(fn) on some file.
Call_getDataShape ==
    /\ pc = "idle"
    /\ \E w \in Dims, h \in Dims, n \in FrameCounts, seed \in Seeds, cut \in Cuts :
           file' = FrmsFile(w, h, n, seed, cut)
    /\ top' = "getDataShape"
    /\ pc' = "fileheader_open"
    /\ UNCHANGED <<args, fh, opens, closes, nread, loc, result, h5>>

\* A caller calls Frms6Reader.getFrameHeaders(fn) on some file; its first
\* statement calls getDataShape.
Call_getFrameHeaders ==
    /\ pc = "idle"
    /\ \E w \in Dims, h \in Dims, n \in FrameCounts, seed \in Seeds, cut \in Cuts :
           file' = FrmsFile(w, h, n, seed, cut)
    /\ top' = "getFrameHeaders"
    /\ pc' = "fileheader_open"
    /\ UNCHANGED <<args, fh, opens, closes, nread, loc, result, h5>>

\* getFileHeader: with open(fn, 'rb') as fh
getFileHeader_Open ==
    /\ pc = "fileheader_open"
    /\ fh' = OpenHandle
    /\ opens' = opens + 1
    /\ pc' = "fileheader_read"
    /\ UNCHANGED <<top, file, args, closes, nread, loc, result, h5>>

\* getFileHeader: fileHeaderRaw = fh.read(cls.fileHeaderSizeInBytes)
getFileHeader_Read ==
    /\ pc = "fileheader_read"
    /\ LET raw == ReadBytes(file, fh.pos, fileHeaderSizeInBytes)
       IN  /\ loc' = [loc EXCEPT !.raw = raw]
           /\ fh' = [fh EXCEPT !.pos = fh.pos + Len(raw)]
           /\ nread' = nread + Len(raw)
    /\ pc' = "fileheader_unpack"
    /\ UNCHANGED <<top, file, args, opens, closes, result, h5>>

\* getFileHeader: unpack, build the dict, leave the with-block.
getFileHeader_Unpack ==
    /\ pc = "fileheader_unpack"
    /\ WithExit
    /\ IF UnpackFails(fileHeaderFormat, loc.raw)
       THEN /\ result' = Raise("struct.error")
            /\ pc' = "done"
            /\ loc' = loc
       ELSE /\ loc' = [loc EXCEPT
                         !.fileHeader = FileHeaderDict(unpack(fileHeaderFormat, loc.raw))]
            /\ pc' = "datashape"
            /\ result' = result
    /\ UNCHANGED <<top, file, args, opens, nread, h5>>

\* getDataShape after getFileHeader: the record size, the file size, the
\* division and its check.  In getFrameHeaders the returned tuple
\* (frameWidth, frameHeight, numberOfFrames) is unpacked into
\* frameHeight, frameWidth, numberOfFrames, and the frame size follows.
getDataShape_Compute ==
    /\ pc = "datashape"
    /\ LET frameWidth == loc.fileHeader.width
           frameHeight == loc.fileHeader.height
           recordSize == frameAndHeaderSizeInBytes(frameWidth, frameHeight)
           fileSize == Len(file)
           num == fileSize - fileHeaderSizeInBytes
       IN  IF ~IsInteger(num, recordSize)
           THEN /\ result' = Raise("Warning")
                /\ pc' = "done"
                /\ loc' = loc
           ELSE LET shape == <<frameWidth, frameHeight, num \div recordSize>>
                IN  IF top = "getDataShape"
                    THEN /\ result' = Ok(shape)
                         /\ pc' = "done"
                         /\ loc' = loc
                    ELSE /\ loc' = [loc EXCEPT
                                      !.frameHeight = shape[1],
                                      !.frameWidth = shape[2],
                                      !.numberOfFrames = shape[3],
                                      !.frameSizeInBytes =
                                          getFrameSizeInBytes(shape[2], shape[1]),
                                      !.lists = NoLists]
                         /\ pc' = "headers_open"
                         /\ result' = result
    /\ UNCHANGED <<top, file, args, fh, opens, closes, nread, h5>>

\* getFrameHeaders: with open(fn, 'rb') as fh
getFrameHeaders_Open ==
    /\ pc = "headers_open"
    /\ fh' = OpenHandle
    /\ opens' = opens + 1
    /\ pc' = "headers_seek"
    /\ UNCHANGED <<top, file, args, closes, nread, loc, result, h5>>

\* getFrameHeaders: fh.seek(cls.fileHeaderSizeInBytes), and the loop begins.
getFrameHeaders_Seek ==
    /\ pc = "headers_seek"
    /\ fh' = [fh EXCEPT !.pos = fileHeaderSizeInBytes]
    /\ loc' = [loc EXCEPT !.frameIdx = 0]
    /\ pc' = "headers_loop"
    /\ UNCHANGED <<top, file, args, opens, closes, nread, result, h5>>

\* getFrameHeaders, one pass of the loop, first half: read one frame header,
\* unpack it, append its first nine items to the nine lists.
getFrameHeaders_ReadHeader ==
    /\ pc = "headers_loop"
    /\ loc.frameIdx < loc.numberOfFrames
    /\ LET raw == ReadBytes(file, fh.pos, frameHeaderSizeInBytes)
       IN  /\ nread' = nread + Len(raw)
           /\ IF UnpackFails(frameHeaderFormat, raw)
              THEN /\ result' = Raise("struct.error")
                   /\ WithExit
                   /\ pc' = "done"
                   /\ loc' = [loc EXCEPT !.raw = raw]
              ELSE /\ loc' = [loc EXCEPT
                                !.raw = raw,
                                !.lists = AppendItems(loc.lists,
                                              unpack(frameHeaderFormat, raw))]
                   /\ fh' = [fh EXCEPT !.pos = fh.pos + Len(raw)]
                   /\ closes' = closes
                   /\ pc' = "headers_skip"
                   /\ result' = result
    /\ UNCHANGED <<top, file, args, opens, h5>>

\* getFrameHeaders, second half of the pass: fh.seek(frameSizeInBytes, 1).
getFrameHeaders_Skip ==
    /\ pc = "headers_skip"
    /\ fh' = [fh EXCEPT !.pos = fh.pos + loc.frameSizeInBytes]
    /\ loc' = [loc EXCEPT !.frameIdx = loc.frameIdx + 1]
    /\ pc' = "headers_loop"
    /\ UNCHANGED <<top, file, args, opens, closes, nread, result, h5>>

\* getFrameHeaders returning without leaving a with-block: the handle stays
\* open.
getFrameHeaders_Return_NoClose ==
    /\ pc = "headers_loop"
    /\ loc.frameIdx >= loc.numberOfFrames
    /\ result' = Ok(loc.lists)
    /\ pc' = "done"
    /\ UNCHANGED <<top, file, args, fh, opens, closes, nread, loc, h5>>

\* getFrameHeaders: the loop is over, the with-block ends, the dict of the
\* nine lists is returned.
getFrameHeaders_Return ==
    /\ pc = "headers_loop"
    /\ loc.frameIdx >= loc.numberOfFrames
    /\ WithExit
    /\ result' = Ok(loc.lists)
    /\ pc' = "done"
    /\ UNCHANGED <<top, file, args, opens, nread, loc, h5>>

\* A caller calls Frms6Reader.readData(fn, image_range=(startIdx, endIdx),
\* pixels_x, pixels_y) with the width and height of the file.
Call_readData ==
    /\ pc = "idle"
    /\ \E w \in Dims, h \in Dims, n \in FrameCounts, seed \in Seeds, cut \in Cuts,
          startIdx \in FrameIdxs, endIdx \in FrameIdxs :
           /\ file' = FrmsFile(w, h, n, seed, cut)
           /\ args' = [image_range |-> <<startIdx, endIdx>>,
                       pixels_x |-> w, pixels_y |-> h]
    /\ top' = "readData"
    /\ pc' = "read_alloc"
    /\ UNCHANGED <<fh, opens, closes, nread, loc, result, h5>>

\* readData up to the with-block: the number of frames, the frame size, the
\* offset, and chunk = np.zeros((pixelsX, pixelsY, numberOfFrames)).
readData_Alloc ==
    /\ pc = "read_alloc"
    /\ LET startIdx == args.image_range[1]
           endIdx == args.image_range[2]
           numberOfFrames == endIdx - startIdx
           pixelsX == args.pixels_x
           pixelsY == args.pixels_y
           frameSizeInBytes == getFrameSizeInBytes(pixelsX, pixelsY)
           shape == <<pixelsX, pixelsY, numberOfFrames>>
       IN  IF ZerosFails(shape)
           THEN /\ result' = Raise("ValueError")
                /\ pc' = "done"
                /\ loc' = loc
           ELSE /\ loc' = [loc EXCEPT
                             !.numberOfFrames = numberOfFrames,
                             !.frameSizeInBytes = frameSizeInBytes,
                             !.offset = StartOffset(startIdx, frameSizeInBytes),
                             !.chunk = np_zeros(shape)]
                /\ pc' = "read_open"
                /\ result' = result
    /\ UNCHANGED <<top, file, args, fh, opens, closes, nread, h5>>

\* readData: with open(fn, 'rb') as fh
readData_Open ==
    /\ pc = "read_open"
    /\ fh' = OpenHandle
    /\ opens' = opens + 1
    /\ pc' = "read_seek"
    /\ UNCHANGED <<top, file, args, closes, nread, loc, result, h5>>

\* readData: fh.seek(offset), which raises OSError on a negative offset.
readData_Seek ==
    /\ pc = "read_seek"
    /\ IF loc.offset < 0
       THEN /\ result' = Raise("OSError")
            /\ WithExit
            /\ pc' = "done"
            /\ loc' = loc
       ELSE /\ fh' = [fh EXCEPT !.pos = loc.offset]
            /\ loc' = [loc EXCEPT !.frameIdx = 0]
            /\ closes' = closes
            /\ pc' = "read_loop"
            /\ result' = result
    /\ UNCHANGED <<top, file, args, opens, nread, h5>>

\* One pass of the loop of readData from position pos: skip the frame
\* header, read the frame, np.frombuffer, reshape to (pixelsY, pixelsX),
\* transpose, store at frameIdx.  fails: np.frombuffer or reshape raised.
ReadFrame(f, pos, chunk, frameIdx, frameSizeInBytes, pixelsX, pixelsY) ==
    LET at == pos + frameHeaderSizeInBytes
        buf == ReadBytes(f, at, frameSizeInBytes)
        flat == np_frombuffer(buf)
    IN  IF FrombufferFails(buf) \/ ReshapeFails(flat, pixelsY, pixelsX)
        THEN [fails |-> TRUE, buf |-> buf, pos |-> at + Len(buf), chunk |-> chunk]
        ELSE [fails |-> FALSE, buf |-> buf, pos |-> at + Len(buf),
              chunk |-> SetFrame(chunk, frameIdx,
                            np_transpose(reshape(flat, pixelsY, pixelsX)))]

\* readData, one pass of the loop.
readData_Frame ==
    /\ pc = "read_loop"
    /\ loc.frameIdx < loc.numberOfFrames
    /\ LET r == ReadFrame(file, fh.pos, loc.chunk, loc.frameIdx,
                          loc.frameSizeInBytes, args.pixels_x, args.pixels_y)
       IN  /\ nread' = nread + Len(r.buf)
           /\ IF r.fails
              THEN /\ result' = Raise("ValueError")
                   /\ WithExit
                   /\ pc' = "done"
                   /\ loc' = [loc EXCEPT !.raw = r.buf]
              ELSE /\ loc' = [loc EXCEPT
                                !.raw = r.buf,
                                !.chunk = r.chunk,
                                !.frameIdx = loc.frameIdx + 1]
                   /\ fh' = [fh EXCEPT !.pos = r.pos]
                   /\ closes' = closes
                   /\ pc' = "read_loop"
                   /\ result' = result
    /\ UNCHANGED <<top, file, args, opens, h5>>

\* readData: the loop is over, the with-block ends, chunk is returned.
readData_Return ==
    /\ pc = "read_loop"
    /\ loc.frameIdx >= loc.numberOfFrames
    /\ WithExit
    /\ result' = Ok(loc.chunk)
    /\ pc' = "done"
    /\ UNCHANGED <<top, file, args, opens, nread, loc, h5>>

RECURSIVE ReadLoop(_, _, _, _, _, _, _, _)
\* The loop of readData run to its end: what the call returns or raises.
ReadLoop(f, pos, chunk, frameIdx, numberOfFrames, frameSizeInBytes, pixelsX, pixelsY) ==
    IF frameIdx >= numberOfFrames THEN Ok(chunk)
    ELSE LET r == ReadFrame(f, pos, chunk, frameIdx, frameSizeInBytes,
                            pixelsX, pixelsY)
         IN  IF r.fails THEN Raise("ValueError")
             ELSE ReadLoop(f, r.pos, r.chunk, frameIdx + 1, numberOfFrames,
                           frameSizeInBytes, pixelsX, pixelsY)

\* Frms6Reader.readData(fn, image_range=, pixels_x=, pixels_y=) as a
\* function of the file: the steps above, composed.
readDataOf(f, image_range, pixelsX, pixelsY) ==
    LET startIdx == image_range[1]
        endIdx == image_range[2]
        numberOfFrames == endIdx - startIdx
        frameSizeInBytes == getFrameSizeInBytes(pixelsX, pixelsY)
        offset == StartOffset(startIdx, frameSizeInBytes)
        shape == <<pixelsX, pixelsY, numberOfFrames>>
    IN  IF ZerosFails(shape) THEN Raise("ValueError")
        ELSE IF offset < 0 THEN Raise("OSError")
        ELSE ReadLoop(f, offset, np_zeros(shape), 0, numberOfFrames,
                      frameSizeInBytes, pixelsX, pixelsY)

---------------------------------------------------------------------------
(* The module-level readData: a slice of a dataset of an HDF5 container.   *)
(* h5py is modelled by what the function needs of it: whether a file can   *)
(* be opened, which datasets it holds, and the shape that indexing gives   *)
(* or the exception it raises.  Arrays are their shapes.  File names are   *)
(* tuples of characters.                                                   *)

\* Python's None, for a keyword that was not given.
None == <<>>

\* The first index (from 0) at which sub occurs in s, or -1: str.find.
Find(s, sub) ==
    LET hits == {i \in 0..(Len(s) - Len(sub)) : SubSeq(s, i + 1, i + Len(sub)) = sub}
    IN  IF hits = {} THEN -1 ELSE CHOOSE i \in hits : \A j \in hits : i <= j

RECURSIVE Replace(_, _, _)
\* str.replace(old, new), for a non-empty old.
Replace(s, old, new) ==
    LET at == Find(s, old)
    IN  IF at = -1 THEN s
        ELSE SubSeq(s, 1, at) \o new
             \o Replace(SubSeq(s, at + Len(old) + 1, Len(s)), old, new)

Zeros5 == <<"0", "0", "0", "0", "0">>
Pattern5 == <<"%", "0", "5", "d">>

\* The file names callers pass: a single file, the first member of a
\* family, a file whose dataset has two axes only, and a file that is not
\* there.
NameSingle == <<"a", ".", "h", "5">>
NameFamily == <<"b", "0", "0", "0", "0", "0", ".", "h", "5">>
NameFlat == <<"c", ".", "h", "5">>
NameMissing == <<"d", ".", "h", "5">>
H5Names == {NameSingle, NameFamily, NameFlat, NameMissing}
H5Paths == {"/stream", "/other"}

\* What is on disk under the name h5py.File is given: the shapes of the
\* datasets of the container, by path, and whether there is a container.
H5Disk(name) ==
    CASE name = NameSingle ->
             [exists |-> TRUE, datasets |-> [p \in {"/stream"} |-> <<2, 2, 3>>]]
      [] name = Replace(NameFamily, Zeros5, Pattern5) ->
             [exists |-> TRUE, datasets |-> [p \in {"/stream"} |-> <<3, 1, 2, 2>>]]
      [] name = NameFlat ->
             [exists |-> TRUE, datasets |-> [p \in {"/stream"} |-> <<2, 2>>]]
      [] OTHER -> [exists |-> FALSE, datasets |-> <<>>]

\* The ranges callers pass.
H5Ranges == {None, <<0, 2>>, <<1, 5>>}

\* The length of the slice lo:hi of an axis of length n (0 <= lo, 0 <= hi).
SliceLen(r, n) == Max(0, Min(r[2], n) - Min(r[1], n))

\* dataset[i0, i1, i2], each index a full slice (None) or a range: raises
\* when the dataset has fewer than three axes; further axes are kept whole.
IndexFails(shape) == Len(shape) < 3
Index3(shape, r0, r1, r2) ==
    [i \in 1..Len(shape) |->
        LET r == CASE i = 1 -> r0 [] i = 2 -> r1 [] i = 3 -> r2 [] OTHER -> None
        IN  IF r = None THEN shape[i] ELSE SliceLen(r, shape[i])]

\* np.squeeze: the axes of length 1 are dropped.
np_squeeze(shape) == SelectSeq(shape, LAMBDA d : d # 1)

\* np.rollaxis(a, axis): the axis is moved to the front; raises when the
\* array has no such axis.
RollaxisFails(shape, axis) == axis >= Len(shape)
np_rollaxis(shape, axis) ==
    <<shape[axis + 1]>> \o SubSeq(shape, 1, axis) \o SubSeq(shape, axis + 2, Len(shape))

\* The name h5py.File is given: that of the family ("%05d" for "00000",
\* with driver='family') when the file name holds "00000", else the file
\* name itself.
H5FileName(filename) ==
    IF Find(filename, Zeros5) # -1
    THEN Replace(filename, Zeros5, Pattern5)
    ELSE filename

\* The exception of a subscript with three indices on fewer than three
\* axes: h5py's Dataset raises TypeError, a numpy array IndexError.
SubscriptError(dinType) ==
    IF dinType = "Dataset" THEN "TypeError" ELSE "IndexError"

\* A caller calls readData(filename, path, image_range=, x_range=, y_range=,
\* simulated=), each keyword given or not.
Call_h5readData ==
    /\ pc = "idle"
    /\ \E filename \in H5Names, path \in H5Paths, imageRange \in H5Ranges,
          pixelXRange \in H5Ranges, pixelYRange \in H5Ranges, simulated \in BOOLEAN :
           args' = [filename |-> filename, path |-> path, image_range |-> imageRange,
                    x_range |-> pixelXRange, y_range |-> pixelYRange,
                    simulated |-> simulated]
    /\ top' = "h5readData"
    /\ pc' = "h5_open"
    /\ UNCHANGED <<file, fh, opens, closes, nread, loc, result, h5>>

\* f = h5py.File(...), of the family when the name holds "00000".
h5readData_Open ==
    /\ pc = "h5_open"
    /\ LET name == H5FileName(args.filename)
       IN  IF ~H5Disk(name).exists
           THEN /\ result' = Raise("OSError")
                /\ pc' = "done"
                /\ h5' = h5
           ELSE /\ h5' = [h5 EXCEPT !.open = h5.open + 1, !.datasets = H5Disk(name).datasets]
                /\ pc' = "h5_index"
                /\ result' = result
    /\ UNCHANGED <<top, file, args, fh, opens, closes, nread, loc>>

\* din = f[path], or the image range of it along the last axis, or along
\* the first axis when simulated.
h5readData_Index ==
    /\ pc = "h5_index"
    /\ IF args.path \notin DOMAIN h5.datasets
       THEN /\ result' = Raise("KeyError")
            /\ pc' = "done"
            /\ loc' = loc
       ELSE LET shape == h5.datasets[args.path]
            IN  IF args.image_range = None
                THEN /\ loc' = [loc EXCEPT !.din = shape, !.dinType = "Dataset"]
                     /\ pc' = "h5_simulated"
                     /\ result' = result
                ELSE IF IndexFails(shape)
                THEN /\ result' = Raise("TypeError")
                     /\ pc' = "done"
                     /\ loc' = loc
                ELSE /\ loc' = [loc EXCEPT
                                  !.din =
                                      IF ~args.simulated
                                      THEN Index3(shape, None, None, args.image_range)
                                      ELSE Index3(shape, args.image_range, None, None),
                                  !.dinType = "ndarray"]
                     /\ pc' = "h5_simulated"
                     /\ result' = result
    /\ UNCHANGED <<top, file, args, fh, opens, closes, nread, h5>>

\* if simulated: squeeze, three rollaxis, ascontiguousarray.
h5readData_Simulated ==
    /\ pc = "h5_simulated"
    /\ IF ~args.simulated
       THEN /\ pc' = "h5_slice"
            /\ UNCHANGED <<loc, result>>
       ELSE LET d0 == np_squeeze(loc.din)
                d1 == np_rollaxis(d0, 2)
                d2 == np_rollaxis(d1, 2)
                d3 == np_rollaxis(d2, 1)
            IN  IF RollaxisFails(d0, 2)
                THEN /\ result' = Raise("AxisError")
                     /\ pc' = "done"
                     /\ loc' = loc
                ELSE /\ loc' = [loc EXCEPT !.din = d3, !.dinType = "ndarray"]
                     /\ pc' = "h5_slice"
                     /\ result' = result
    /\ UNCHANGED <<top, file, args, fh, opens, closes, nread, h5>>

\* d = np.array(din[:, :, :]), or of the pixel ranges of din when x_range
\* or y_range is given: subscripting the one that is not raises TypeError.
\* din is the h5py Dataset itself when no image range was taken and the
\* data is not simulated, else a numpy array.
h5readData_Slice ==
    /\ pc = "h5_slice"
    /\ IF args.x_range = None /\ args.y_range = None
       THEN IF IndexFails(loc.din)
            THEN /\ result' = Raise(SubscriptError(loc.dinType))
                 /\ pc' = "done"
                 /\ loc' = loc
            ELSE /\ loc' = [loc EXCEPT !.din = Index3(loc.din, None, None, None)]
                 /\ pc' = "h5_close"
                 /\ result' = result
       ELSE IF args.x_range = None \/ args.y_range = None
            THEN /\ result' = Raise("TypeError")
                 /\ pc' = "done"
                 /\ loc' = loc
            ELSE IF IndexFails(loc.din)
            THEN /\ result' = Raise(SubscriptError(loc.dinType))
                 /\ pc' = "done"
                 /\ loc' = loc
            ELSE /\ loc' = [loc EXCEPT !.din =
                              Index3(loc.din, args.x_range, args.y_range, None)]
                 /\ pc' = "h5_close"
                 /\ result' = result
    /\ UNCHANGED <<top, file, args, fh, opens, closes, nread, h5>>

\* f.close(); return np.asarray(d, np.float64)
h5readData_Close ==
    /\ pc = "h5_close"
    /\ h5' = [h5 EXCEPT !.open = h5.open - 1, !.closed = h5.closed + 1]
    /\ result' = Ok(loc.din)
    /\ pc' = "done"
    /\ UNCHANGED <<top, file, args, fh, opens, closes, nread, loc>>

\* A caller calls getDataSize(filename, path).
Call_getDataSize ==
    /\ pc = "idle"
    /\ \E filename \in H5Names, path \in H5Paths :
           args' = [filename |-> filename, path |-> path]
    /\ top' = "getDataSize"
    /\ pc' = "size_open"
    /\ UNCHANGED <<file, fh, opens, closes, nread, loc, result, h5>>

\* getDataSize: f = h5py.File(...), as in readData.
getDataSize_Open ==
    /\ pc = "size_open"
    /\ LET name == H5FileName(args.filename)
       IN  IF ~H5Disk(name).exists
           THEN /\ result' = Raise("OSError")
                /\ pc' = "done"
                /\ h5' = h5
           ELSE /\ h5' = [h5 EXCEPT !.open = h5.open + 1, !.datasets = H5Disk(name).datasets]
                /\ pc' = "size_shape"
                /\ result' = result
    /\ UNCHANGED <<top, file, args, fh, opens, closes, nread, loc>>

\* getDataSize: return f[path].shape; f is not closed.
getDataSize_Return ==
    /\ pc = "size_shape"
    /\ IF args.path \notin DOMAIN h5.datasets
       THEN result' = Raise("KeyError")
       ELSE result' = Ok(h5.datasets[args.path])
    /\ pc' = "done"
    /\ UNCHANGED <<top, file, args, fh, opens, closes, nread, loc, h5>>

Next ==
    \/ Call_getDataShape
    \/ Call_getFrameHeaders
    \/ getFileHeader_Open
    \/ getFileHeader_Read
    \/ getFileHeader_Unpack
    \/ getDataShape_Compute
    \/ getFrameHeaders_Open
    \/ getFrameHeaders_Seek
    \/ getFrameHeaders_ReadHeader
    \/ getFrameHeaders_Skip
    \/ getFrameHeaders_Return
    \/ Call_readData
    \/ readData_Alloc
    \/ readData_Open
    \/ readData_Seek
    \/ readData_Frame
    \/ readData_Return
    \/ Call_h5readData
    \/ h5readData_Open
    \/ h5readData_Index
    \/ h5readData_Simulated
    \/ h5readData_Slice
    \/ h5readData_Close
    \/ Call_getDataSize
    \/ getDataSize_Open
    \/ getDataSize_Return

Spec == Init /\ [][Next]_vars

---------------------------------------------------------------------------
(* What the claims speak of.                                               *)

\* The call of entry point t has ended, by return or by exception.
Done(t) == pc = "done" /\ top = t
\* The call of entry point t has returned a value.
Returned(t) == Done(t) /\ result.kind = "ok"

\* The record size in bytes of frames of W x H 16-bit samples.
RecordSize(W, H) == frameHeaderSizeInBytes + 2 * W * H
\* The file is a file header followed by whole records of W x H frames.
WellFormedFor(W, H) ==
    /\ Len(file) >= fileHeaderSizeInBytes
    /\ (Len(file) - fileHeaderSizeInBytes) % RecordSize(W, H) = 0
\* The number of whole records of W x H frames the file holds.
FramesIn(W, H) ==
    IF Len(file) < fileHeaderSizeInBytes THEN 0
    ELSE (Len(file) - fileHeaderSizeInBytes) \div RecordSize(W, H)
\* The byte offset of the header of frame k, and of its payload.
HeaderStart(k, W, H) == fileHeaderSizeInBytes + k * RecordSize(W, H)
PayloadStart(k, W, H) == HeaderStart(k, W, H) + frameHeaderSizeInBytes
\* The 16-bit sample at byte offset off of the file.
U16At(off) == file[off + 1] + 256 * file[off + 2]
\* The width and height the file header declares (the_width, the_maxHeight).
DeclaredWidth == file[89] + 256 * file[90]
DeclaredHeight == file[91] + 256 * file[92]
\* R[:, :, a:b] of a 3-D array R.
SliceFrames(R, a, b) ==
    [shape |-> <<R.shape[1], R.shape[2], b - a>>,
     data |-> [x \in 1..R.shape[1] |-> [y \in 1..R.shape[2] |->
                  SubSeq(R.data[x][y], a + 1, b)]]]

\* C1: for a well-formed file of N frames of W x H, readData over [0, N)
\* with pixels_x = W and pixels_y = H returns an array R of shape (W, H, N)
\* with R[x][y][k] the 16-bit sample number y*W + x of the payload of frame
\* k, which starts at fileHeaderSize + k*recordSize + frameHeaderSize.
C1_RoundTrip ==
    (/\ Done("readData")
     /\ WellFormedFor(args.pixels_x, args.pixels_y)
     /\ args.image_range = <<0, FramesIn(args.pixels_x, args.pixels_y)>>)
    => LET W == args.pixels_x
           H == args.pixels_y
           N == FramesIn(W, H)
           R == result.value
       IN  /\ result.kind = "ok"
           /\ R.shape = <<W, H, N>>
           /\ Len(R.data) = W
           /\ \A x \in 0..(W - 1) :
                  /\ Len(R.data[x + 1]) = H
                  /\ \A y \in 0..(H - 1) :
                         /\ Len(R.data[x + 1][y + 1]) = N
                         /\ \A k \in 0..(N - 1) :
                                R.data[x + 1][y + 1][k + 1]
                                    = U16At(PayloadStart(k, W, H) + 2 * (y * W + x))

\* C1's case: the two 2 x 2 frames [1,2,3,4] and [5,6,7,8] were read as
\* [[1,3],[2,4]] and [[5,7],[6,8]].
C1_Witness ==
    /\ Returned("readData")
    /\ WellFormedFor(args.pixels_x, args.pixels_y)
    /\ args.image_range = <<0, 2>>
    /\ result.value.shape = <<2, 2, 2>>
    /\ result.value.data = << << <<1, 5>>, <<3, 7>> >>, << <<2, 6>>, <<4, 8>> >> >>

\* C2: for a well-formed file of N frames and 0 <= a <= b <= N, readData
\* over [a, b) returns the slice [a:b] along the third axis of what readData
\* over [0, N) returns for the same width and height.
C2_SubRangeIsSlice ==
    (/\ Done("readData")
     /\ WellFormedFor(args.pixels_x, args.pixels_y)
     /\ 0 <= args.image_range[1]
     /\ args.image_range[1] <= args.image_range[2]
     /\ args.image_range[2] <= FramesIn(args.pixels_x, args.pixels_y))
    => LET W == args.pixels_x
           H == args.pixels_y
           whole == readDataOf(file, <<0, FramesIn(W, H)>>, W, H)
       IN  /\ whole.kind = "ok"
           /\ result.kind = "ok"
           /\ result.value
                  = SliceFrames(whole.value, args.image_range[1], args.image_range[2])

\* C2's case: a proper, non-empty sub-range that does not start at frame 0
\* was read from a file of frames that have samples.
C2_Witness ==
    /\ Returned("readData")
    /\ WellFormedFor(args.pixels_x, args.pixels_y)
    /\ args.pixels_x * args.pixels_y > 1
    /\ args.image_range[1] = 1
    /\ args.image_range[2] = 2
    /\ FramesIn(args.pixels_x, args.pixels_y) = 2
    /\ result.value.shape[3] = 1

\* The items of the header of frame k of a file of W x H frames.
HeaderItems(k, W, H) ==
    unpack(frameHeaderFormat,
           SubSeq(file, HeaderStart(k, W, H) + 1,
                  HeaderStart(k, W, H) + frameHeaderSizeInBytes))
\* The first eight entries number k of the lists are the first eight items
\* of the header of frame k, in the order of the layout.
FirstEightFrom(lists, k, W, H) ==
    /\ lists.start[k + 1] = HeaderItems(k, W, H)[1]
    /\ lists.info[k + 1] = HeaderItems(k, W, H)[2]
    /\ lists.id[k + 1] = HeaderItems(k, W, H)[3]
    /\ lists.height[k + 1] = HeaderItems(k, W, H)[4]
    /\ lists.tv_sec[k + 1] = HeaderItems(k, W, H)[5]
    /\ lists.tv_usec[k + 1] = HeaderItems(k, W, H)[6]
    /\ lists.index[k + 1] = HeaderItems(k, W, H)[7]
    /\ lists.temp[k + 1] = HeaderItems(k, W, H)[8]
\* Each of the nine lists has n entries.
NineOfLength(lists, n) ==
    /\ Len(lists.start) = n /\ Len(lists.info) = n /\ Len(lists.id) = n
    /\ Len(lists.height) = n /\ Len(lists.tv_sec) = n /\ Len(lists.tv_usec) = n
    /\ Len(lists.index) = n /\ Len(lists.temp) = n /\ Len(lists.maxHeight) = n

\* C3: on a valid file for which getDataShape gives N frames,
\* getFrameHeaders ends after exactly N passes of its loop and returns nine
\* lists of exactly N entries, entry k decoded from the frame header at byte
\* fileHeaderSize + k*(frameHeaderSize + 2*width*height) (the first eight
\* from its first eight items, maxHeight from one of its two 2-byte items);
\* for N = 0 every list is empty.
C3_HeadersInFileOrder ==
    (/\ Done("getFrameHeaders")
     /\ Len(file) >= fileHeaderSizeInBytes
     /\ WellFormedFor(DeclaredWidth, DeclaredHeight))
    => LET W == DeclaredWidth
           H == DeclaredHeight
           N == FramesIn(W, H)
           lists == result.value
       IN  /\ result.kind = "ok"
           /\ loc.frameIdx = N
           /\ NineOfLength(lists, N)
           /\ \A k \in 0..(N - 1) :
                  /\ FirstEightFrom(lists, k, W, H)
                  /\ \E i \in 9..10 :
                         lists.maxHeight[k + 1] = HeaderItems(k, W, H)[i]

\* C3's case: the headers of a file of two frames that have samples were
\* returned.
C3_Witness ==
    /\ Returned("getFrameHeaders")
    /\ DeclaredWidth * DeclaredHeight > 0
    /\ FramesIn(DeclaredWidth, DeclaredHeight) = 2
    /\ result.value.index = <<0, 1>>

\* C4: getDataShape returns (width, height, frameCount) only when
\* fileSize - fileHeaderSize is an exact multiple of recordSize =
\* frameHeaderSize + 2*width*height, and then fileSize = fileHeaderSize +
\* frameCount*recordSize; when the division is not exact it raises and
\* returns no shape, as for a valid file of one frame or more cut by a byte.
C4_ExactFrameCount ==
    Done("getDataShape")
    => /\ result.kind = "ok" =>
              /\ Len(file) >= fileHeaderSizeInBytes
              /\ result.value[1] = DeclaredWidth
              /\ result.value[2] = DeclaredHeight
              /\ (Len(file) - fileHeaderSizeInBytes)
                     % RecordSize(DeclaredWidth, DeclaredHeight) = 0
              /\ Len(file) = fileHeaderSizeInBytes
                     + result.value[3] * RecordSize(DeclaredWidth, DeclaredHeight)
       /\ (/\ Len(file) >= fileHeaderSizeInBytes
           /\ ~WellFormedFor(DeclaredWidth, DeclaredHeight))
          => result = Raise("Warning")
       /\ Len(file) < fileHeaderSizeInBytes => result.kind = "error"

\* C4's case: a file of one frame or more, one byte short, was refused.
C4_Witness ==
    /\ Done("getDataShape")
    /\ Len(file) + 1 >= fileHeaderSizeInBytes + RecordSize(DeclaredWidth, DeclaredHeight)
    /\ (Len(file) + 1 - fileHeaderSizeInBytes)
           % RecordSize(DeclaredWidth, DeclaredHeight) = 0
    /\ result = Raise("Warning")

\* C5 as claimed: readData raises, returning no array and reading no byte of
\* the file, for every range with start >= end and for every range with a
\* negative bound.
C5_InvalidRangeRejected ==
    (/\ Done("readData")
     /\ \/ args.image_range[1] >= args.image_range[2]
        \/ args.image_range[1] < 0
        \/ args.image_range[2] < 0)
    => /\ result.kind = "error"
       /\ nread = 0

\* C5, amended: readData raises, without opening the file or reading a byte
\* of it, for every range with start > end; the empty range start = end >= 0
\* is not an error and gives an array of shape (W, H, 0).
C5_ReversedRangeRejected ==
    Done("readData")
    => /\ args.image_range[1] > args.image_range[2]
          => /\ result.kind = "error"
             /\ opens = 0
             /\ nread = 0
       /\ (args.image_range[1] = args.image_range[2] /\ args.image_range[1] >= 0)
          => /\ result.kind = "ok"
             /\ result.value.shape = <<args.pixels_x, args.pixels_y, 0>>
             /\ nread = 0

\* C5's case: a reversed range on a file that has the frames was refused.
C5_Witness ==
    /\ Done("readData")
    /\ args.image_range = <<2, 1>>
    /\ FramesIn(args.pixels_x, args.pixels_y) = 2
    /\ result = Raise("ValueError")
    /\ opens = 0

\* C6 as claimed: on a file that holds N frames, readData over [a, b) with
\* 0 <= a < b and b > N raises and returns no array.
C6_BeyondEndRejected ==
    (/\ Done("readData")
     /\ 0 <= args.image_range[1]
     /\ args.image_range[1] < args.image_range[2]
     /\ args.image_range[2] > FramesIn(args.pixels_x, args.pixels_y))
    => result.kind = "error"

\* C6, amended: the same for frames of one sample or more (width * height
\* >= 1).
C6_BeyondEndRejectedNonEmptyFrames ==
    (/\ Done("readData")
     /\ args.pixels_x * args.pixels_y >= 1
     /\ 0 <= args.image_range[1]
     /\ args.image_range[1] < args.image_range[2]
     /\ args.image_range[2] > FramesIn(args.pixels_x, args.pixels_y))
    => result.kind = "error"

\* C6's case: a range that starts inside a file of frames with samples and
\* ends one frame past its end was refused after the frames there were read.
C6_Witness ==
    /\ Done("readData")
    /\ args.pixels_x * args.pixels_y >= 1
    /\ WellFormedFor(args.pixels_x, args.pixels_y)
    /\ FramesIn(args.pixels_x, args.pixels_y) = 2
    /\ args.image_range = <<1, 3>>
    /\ loc.frameIdx = 1
    /\ result = Raise("ValueError")

\* C7 as claimed: the frame header size of every offset computation is 52
\* bytes: getDataShape's file size, and the positions at which the loops of
\* getFrameHeaders and readData stand, are those of 52-byte frame headers.
C7_FrameHeaderIs52 ==
    /\ Returned("getDataShape")
       => Len(file) = 1024 + result.value[3]
                          * (52 + 2 * result.value[1] * result.value[2])
    /\ (top = "getFrameHeaders" /\ pc = "headers_loop")
       => fh.pos = 1024 + loc.frameIdx * (52 + 2 * DeclaredWidth * DeclaredHeight)
    /\ (top = "readData" /\ pc = "read_loop")
       => fh.pos = 1024 + (args.image_range[1] + loc.frameIdx)
                             * (52 + 2 * args.pixels_x * args.pixels_y)

\* C7, amended: the frame header size is 64 bytes, the sum of the widths of
\* the fields of the layout (4 of one byte, 3 of four, a float of 8, 2 of
\* two, one of 4, one of 8, 24 reserved), the file header size is 1024, and
\* every offset computation uses them.
C7_FrameHeaderIs64 ==
    /\ frameHeaderSizeInBytes = 64
    /\ frameHeaderSizeInBytes = 4 * 1 + 3 * 4 + 8 + 2 * 2 + 4 + 8 + 24
    /\ fileHeaderSizeInBytes = 1024
    /\ Returned("getDataShape")
       => Len(file) = 1024 + result.value[3]
                          * (64 + 2 * result.value[1] * result.value[2])
    /\ (top = "getFrameHeaders" /\ pc = "headers_loop")
       => fh.pos = 1024 + loc.frameIdx * (64 + 2 * DeclaredWidth * DeclaredHeight)
    /\ (top = "readData" /\ pc = "read_loop")
       => fh.pos = 1024 + (args.image_range[1] + loc.frameIdx)
                             * (64 + 2 * args.pixels_x * args.pixels_y)

\* C7's case: the loop of getFrameHeaders stands after the second frame of
\* 2 x 2 samples, at byte 1024 + 2 * (64 + 8).
C7_Witness ==
    /\ top = "getFrameHeaders"
    /\ pc = "headers_loop"
    /\ loc.frameIdx = 2
    /\ DeclaredWidth = 2
    /\ DeclaredHeight = 2
    /\ fh.pos = 1168

\* C8 as claimed: when getFrameHeaders returns, its shape resolution
\* included, the file has been opened exactly once and closed exactly once.
C8_OpenedOnce ==
    Returned("getFrameHeaders")
    => /\ opens = 1
       /\ closes = 1
       /\ ~fh.open

\* C8, amended: when getFrameHeaders returns, the file has been opened
\* exactly twice and closed exactly twice (once by getFileHeader for the
\* shape, once for the scan); at most one handle is open at a time, none at
\* return, and the position of an open handle never moves backward.
C8_OpenedTwiceForwardOnly ==
    /\ [](Returned("getFrameHeaders")
            => (opens = 2 /\ closes = 2 /\ ~fh.open))
    /\ [](top = "getFrameHeaders"
            => (opens - closes = IF fh.open THEN 1 ELSE 0))
    /\ [][(top = "getFrameHeaders" /\ fh.open /\ fh'.open)
            => fh'.pos >= fh.pos]_vars

\* C8's case: getFrameHeaders returned after a scan of two frames.
C8_Witness ==
    /\ Returned("getFrameHeaders")
    /\ loc.frameIdx = 2
    /\ opens = 2
    /\ closes = 2

\* C9 as claimed: when the module-level readData ends, by return or by
\* exception, no container handle it opened is still open.
C9_HandleClosedOnEveryPath ==
    Done("h5readData") => h5.open = 0

\* C10 as claimed: in what getFrameHeaders returns, for every frame k the
\* first eight lists hold the first eight items of the header of frame k
\* and maxHeight[k] holds its tenth item, the_height.
C10_MaxHeightIsTrueHeight ==
    Returned("getFrameHeaders")
    => \A k \in 0..(FramesIn(DeclaredWidth, DeclaredHeight) - 1) :
           /\ FirstEightFrom(result.value, k, DeclaredWidth, DeclaredHeight)
           /\ result.value.maxHeight[k + 1]
                  = HeaderItems(k, DeclaredWidth, DeclaredHeight)[10]

====
